---- MODULE Spec2Model ----
(***************************************************************************)
(* Model of src/advisory/version_ranges.rs: the Bound / UnaffectedRange    *)
(* data model, UnaffectedRange::is_valid, UnaffectedRange::overlaps and    *)
(* the conversion From<semver::Range> for UnaffectedRange.                 *)
(*                                                                         *)
(* The three functions are pure.  Each is an operator written branch by    *)
(* branch as the Rust code is; a call is one action that takes its         *)
(* arguments from the state and stores what the call returns, or the       *)
(* panic it ends with.                                                     *)
(***************************************************************************)
EXTENDS Integers, Sequences, FiniteSets, TLC

\* ---------------------------------------------------------------- bounds
\* Versions are the totally ordered values 1..NumVersions (semver::Version
\* is only ever compared with <, > and == by this file).
NumVersions == 4
\* Longest predicate list handed to the conversion.
MaxLen == 3

\* The largest number of predicates the conversion accepts.
MaxPredicates == 2

Version == 1..NumVersions

\* ------------------------------------------------------------ data model
\* Option<&Version>
None == <<>>
Some(v) == <<v>>

\* enum Bound { Unbounded, Exclusive(Version), Inclusive(Version) }
Unbounded == [kind |-> "Unbounded"]
Exclusive(v) == [kind |-> "Exclusive", version |-> v]
Inclusive(v) == [kind |-> "Inclusive", version |-> v]
Bound == {Unbounded} \cup {Exclusive(v) : v \in Version} \cup {Inclusive(v) : v \in Version}

\* struct UnaffectedRange { start: Bound, end: Bound }
UnaffectedRange == [start : Bound, end : Bound]

\* impl Default for UnaffectedRange
default == [start |-> Unbounded, end |-> Unbounded]

\* semver::version_req::Op, as matched by the conversion
Op == {"Ex", "Gt", "GtEq", "Lt", "LtEq"}

\* semver::Predicate: an operator and the version it compares with
Predicate == [op : Op, version : Version]

\* Version::from(Predicate): the version the predicate carries
into(predicate) == predicate.version

\* What a call ends with: a returned value or a panic with its message.
Ok(x) == [panic |-> FALSE, value |-> x]
Panic(m) == [panic |-> TRUE, msg |-> m]

TooManyPredicates == "Unsupported version specification: too many predicates"
DuplicateLower == "More than one lower bound in the same range!"
DuplicateUpper == "More than one upper bound in the same range!"
NotImplemented == "not yet implemented"
InvalidResult == "assertion failed: result.is_valid()"
InvalidSelf == "assertion failed: self.is_valid()"
InvalidOther == "assertion failed: other.is_valid()"

\* ------------------------------------------------------------- functions
\* Bound::version
version(b) ==
    CASE b.kind = "Unbounded" -> None
      [] b.kind = "Exclusive" -> Some(b.version)
      [] b.kind = "Inclusive" -> Some(b.version)

\* Option::unwrap on a Some
unwrap(o) == o[1]

\* is_valid with <= where the code has <: every equal-version pair passes
is_valid_LessOrEqual(r) ==
    IF r.start = Unbounded \/ r.end = Unbounded
    THEN TRUE
    ELSE unwrap(version(r.start)) <= unwrap(version(r.end))

\* UnaffectedRange::is_valid
is_valid(r) ==
    IF r.start = Unbounded \/ r.end = Unbounded
    THEN TRUE
    ELSE IF unwrap(version(r.start)) < unwrap(version(r.end))
    THEN TRUE
    ELSE CASE r.start.kind = "Exclusive" /\ r.end.kind = "Inclusive" ->
                r.start.version = r.end.version
           [] r.start.kind = "Inclusive" /\ r.end.kind = "Exclusive" ->
                r.start.version = r.end.version
           [] r.start.kind = "Inclusive" /\ r.end.kind = "Inclusive" ->
                r.start.version = r.end.version
           [] OTHER -> FALSE

\* less_or_equal comparing versions only, blind to the kinds of the bounds
less_or_equal_IgnoresKinds(a, b) ==
    IF version(a) # None /\ version(b) # None
    THEN ~(unwrap(version(a)) > unwrap(version(b)))
    ELSE TRUE

\* less_or_equal where a bound without a version fails the comparison
less_or_equal_UnboundedFails(a, b) ==
    IF version(a) # None /\ version(b) # None
    THEN LET a_version == unwrap(version(a))
             b_version == unwrap(version(b))
         IN  IF a_version > b_version
             THEN FALSE
             ELSE IF b_version = a_version
             THEN a.kind = "Inclusive" /\ b.kind = "Inclusive"
             ELSE TRUE
    ELSE FALSE

\* less_or_equal where equal versions never compare as less-or-equal
less_or_equal_Strict(a, b) ==
    IF version(a) # None /\ version(b) # None
    THEN unwrap(version(a)) < unwrap(version(b))
    ELSE TRUE

\* less_or_equal where equal versions fail only if both bounds are Exclusive
less_or_equal_OneInclusiveSuffices(a, b) ==
    IF version(a) # None /\ version(b) # None
    THEN LET a_version == unwrap(version(a))
             b_version == unwrap(version(b))
         IN  IF a_version > b_version
             THEN FALSE
             ELSE IF b_version = a_version
             THEN a.kind = "Inclusive" \/ b.kind = "Inclusive"
             ELSE TRUE
    ELSE TRUE

\* fn less_or_equal(a: &Bound, b: &Bound) inside overlaps
less_or_equal(a, b) ==
    IF version(a) # None /\ version(b) # None
    THEN LET a_version == unwrap(version(a))
             b_version == unwrap(version(b))
         IN  IF a_version > b_version
             THEN FALSE
             ELSE IF b_version = a_version
             THEN IF a.kind = "Inclusive" /\ b.kind = "Inclusive"
                  THEN TRUE
                  ELSE FALSE
             ELSE TRUE
    ELSE TRUE

\* overlaps testing one direction only
overlaps_OneSided(self, other) ==
    IF ~is_valid(self) THEN Panic(InvalidSelf)
    ELSE IF ~is_valid(other) THEN Panic(InvalidOther)
    ELSE Ok(less_or_equal(self.start, other.end))

\* UnaffectedRange::overlaps, with its two assertions
overlaps(self, other) ==
    IF ~is_valid(self) THEN Panic(InvalidSelf)
    ELSE IF ~is_valid(other) THEN Panic(InvalidOther)
    ELSE Ok(less_or_equal(self.start, other.end) /\ less_or_equal(other.start, self.end))

\* ApplyPredicate where a second lower bound replaces the first
ApplyPredicate_OverwritesLower(result, predicate) ==
    CASE predicate.op = "Ex" -> Panic(NotImplemented)
      [] predicate.op = "Gt" ->
            Ok([result EXCEPT !.start = Exclusive(into(predicate))])
      [] predicate.op = "GtEq" ->
            Ok([result EXCEPT !.start = Inclusive(into(predicate))])
      [] predicate.op = "Lt" ->
            IF result.end = Unbounded
            THEN Ok([result EXCEPT !.end = Exclusive(into(predicate))])
            ELSE Panic(DuplicateUpper)
      [] predicate.op = "LtEq" ->
            IF result.end = Unbounded
            THEN Ok([result EXCEPT !.end = Inclusive(into(predicate))])
            ELSE Panic(DuplicateUpper)

\* ApplyPredicate where an Equal predicate is skipped once a bound is set
ApplyPredicate_EqualSkippedLater(result, predicate) ==
    CASE predicate.op = "Ex" ->
            IF result = default THEN Panic(NotImplemented) ELSE Ok(result)
      [] predicate.op = "Gt" ->
            IF result.start = Unbounded
            THEN Ok([result EXCEPT !.start = Exclusive(into(predicate))])
            ELSE Panic(DuplicateLower)
      [] predicate.op = "GtEq" ->
            IF result.start = Unbounded
            THEN Ok([result EXCEPT !.start = Inclusive(into(predicate))])
            ELSE Panic(DuplicateLower)
      [] predicate.op = "Lt" ->
            IF result.end = Unbounded
            THEN Ok([result EXCEPT !.end = Exclusive(into(predicate))])
            ELSE Panic(DuplicateUpper)
      [] predicate.op = "LtEq" ->
            IF result.end = Unbounded
            THEN Ok([result EXCEPT !.end = Inclusive(into(predicate))])
            ELSE Panic(DuplicateUpper)

\* The body of the loop of the conversion: one predicate applied to result.
ApplyPredicate(result, predicate) ==
    CASE predicate.op = "Ex" -> Panic(NotImplemented)
      [] predicate.op = "Gt" ->
            IF result.start = Unbounded
            THEN Ok([result EXCEPT !.start = Exclusive(into(predicate))])
            ELSE Panic(DuplicateLower)
      [] predicate.op = "GtEq" ->
            IF result.start = Unbounded
            THEN Ok([result EXCEPT !.start = Inclusive(into(predicate))])
            ELSE Panic(DuplicateLower)
      [] predicate.op = "Lt" ->
            IF result.end = Unbounded
            THEN Ok([result EXCEPT !.end = Exclusive(into(predicate))])
            ELSE Panic(DuplicateUpper)
      [] predicate.op = "LtEq" ->
            IF result.end = Unbounded
            THEN Ok([result EXCEPT !.end = Inclusive(into(predicate))])
            ELSE Panic(DuplicateUpper)

\* for predicate in input.predicates { ... }: in order, stopping at a panic
RECURSIVE ForEachPredicate(_, _)
ForEachPredicate(result, predicates) ==
    IF predicates = <<>>
    THEN Ok(result)
    ELSE LET step == ApplyPredicate(result, Head(predicates))
         IN  IF step.panic
             THEN step
             ELSE ForEachPredicate(step.value, Tail(predicates))

\* from without the closing assert!(result.is_valid())
from_Unvalidated(input) ==
    IF ~(Len(input) <= MaxPredicates)
    THEN Panic(TooManyPredicates)
    ELSE ForEachPredicate(default, input)

\* from with the length assertion moved behind the loop
from_LengthCheckedLast(input) ==
    LET looped == ForEachPredicate(default, input)
    IN  IF looped.panic
        THEN looped
        ELSE IF ~(Len(input) <= MaxPredicates)
        THEN Panic(TooManyPredicates)
        ELSE IF ~is_valid(looped.value)
        THEN Panic(InvalidResult)
        ELSE Ok(looped.value)

\* impl From<semver::Range> for UnaffectedRange
from(input) ==
    IF ~(Len(input) <= MaxPredicates)
    THEN Panic(TooManyPredicates)
    ELSE LET looped == ForEachPredicate(default, input)
         IN  IF looped.panic
             THEN looped
             ELSE IF ~is_valid(looped.value)
             THEN Panic(InvalidResult)
             ELSE Ok(looped.value)

\* ----------------------------------------------------------------- state
VARIABLES
    call,    \* the function being called: "from", "is_valid" or "overlaps"
    input,   \* from: the predicates of the semver::Range
    self,    \* is_valid, overlaps: the receiver
    other,   \* overlaps: the argument
    pc,      \* "call" before the function has run, "returned" after
    ret      \* what the call ended with

vars == <<call, input, self, other, pc, ret>>

Pending == [panic |-> FALSE, value |-> <<>>]

RECURSIVE SeqsUpTo(_)
SeqsUpTo(n) ==
    IF n = 0
    THEN {<<>>}
    ELSE LET shorter == SeqsUpTo(n - 1)
         IN  shorter \cup {Append(s, p) : s \in {t \in shorter : Len(t) = n - 1}, p \in Predicate}

Inputs == SeqsUpTo(MaxLen)

Init ==
    /\ pc = "call"
    /\ ret = Pending
    /\ \/ /\ call = "from"
          /\ input \in Inputs
          /\ self = default
          /\ other = default
       \/ /\ call = "is_valid"
          /\ input = <<>>
          /\ self \in UnaffectedRange
          /\ other = default
       \/ /\ call = "overlaps"
          /\ input = <<>>
          /\ self \in UnaffectedRange
          /\ other \in UnaffectedRange

CallFrom ==
    /\ pc = "call"
    /\ call = "from"
    /\ ret' = from(input)
    /\ pc' = "returned"
    /\ UNCHANGED <<call, input, self, other>>

CallIsValid ==
    /\ pc = "call"
    /\ call = "is_valid"
    /\ ret' = Ok(is_valid(self))
    /\ pc' = "returned"
    /\ UNCHANGED <<call, input, self, other>>

CallOverlaps ==
    /\ pc = "call"
    /\ call = "overlaps"
    /\ ret' = overlaps(self, other)
    /\ pc' = "returned"
    /\ UNCHANGED <<call, input, self, other>>

Next == CallFrom \/ CallIsValid \/ CallOverlaps

Spec == Init /\ [][Next]_vars

\* ------------------------------------------------------------ properties
Returned(f) == pc = "returned" /\ call = f

Versioned(b) == b.kind # "Unbounded"
SameVersion(x, y) == Versioned(x) /\ Versioned(y) /\ x.version = y.version
Below(x, y) == Versioned(x) /\ Versioned(y) /\ x.version < y.version
Above(x, y) == Versioned(x) /\ Versioned(y) /\ x.version > y.version

\* Valid(r) as the specification words it
ValidAsStated(r) ==
    \/ ~Versioned(r.start)
    \/ ~Versioned(r.end)
    \/ Below(r.start, r.end)
    \/ /\ SameVersion(r.start, r.end)
       /\ <<r.start.kind, r.end.kind>> \in
             {<<"Exclusive", "Inclusive">>, <<"Inclusive", "Exclusive">>, <<"Inclusive", "Inclusive">>}

\* C1: is_valid(r) is true exactly when a side is Unbounded, or start.version <
\* end.version, or the versions are equal and the kinds are (Exclusive,Inclusive),
\* (Inclusive,Exclusive) or (Inclusive,Inclusive); it is false for
\* (Exclusive v, Exclusive v) and whenever start.version > end.version.
C1_ValidExactly ==
    Returned("is_valid") =>
        /\ ret = Ok(ValidAsStated(self))
        /\ (SameVersion(self.start, self.end) /\ self.start.kind = "Exclusive"
              /\ self.end.kind = "Exclusive") => ret = Ok(FALSE)
        /\ Above(self.start, self.end) => ret = Ok(FALSE)

C1_Witness ==
    /\ Returned("is_valid")
    /\ SameVersion(self.start, self.end)
    /\ self.start.kind = "Inclusive"
    /\ self.end.kind = "Exclusive"
    /\ ret = Ok(TRUE)

IsLower(p) == p.op \in {"Gt", "GtEq"}
IsUpper(p) == p.op \in {"Lt", "LtEq"}
Lowers(s) == {i \in DOMAIN s : IsLower(s[i])}
Uppers(s) == {i \in DOMAIN s : IsUpper(s[i])}
Equals(s) == {i \in DOMAIN s : s[i].op = "Ex"}

\* The start and end the specification maps a predicate list to
StartAsStated(s) ==
    IF Lowers(s) = {}
    THEN Unbounded
    ELSE LET p == s[CHOOSE i \in Lowers(s) : TRUE]
         IN  IF p.op = "Gt" THEN Exclusive(p.version) ELSE Inclusive(p.version)

EndAsStated(s) ==
    IF Uppers(s) = {}
    THEN Unbounded
    ELSE LET p == s[CHOOSE i \in Uppers(s) : TRUE]
         IN  IF p.op = "Lt" THEN Exclusive(p.version) ELSE Inclusive(p.version)

RangeAsStated(s) == [start |-> StartAsStated(s), end |-> EndAsStated(s)]

AcceptedAsStated(s) ==
    /\ Len(s) <= 2
    /\ Equals(s) = {}
    /\ Cardinality(Lowers(s)) <= 1
    /\ Cardinality(Uppers(s)) <= 1
    /\ ValidAsStated(RangeAsStated(s))

\* C2: the conversion returns a range if and only if the list has at most 2
\* predicates, none Equal, at most one lower-bound and at most one upper-bound
\* predicate, and the mapped range is valid; the range returned is the mapped
\* one (Gt -> Exclusive start, GtEq -> Inclusive start, Lt -> Exclusive end,
\* LtEq -> Inclusive end, Unbounded where no predicate names the side); in
\* every other case the call fails and hands back no range.
C2_FromReturnsExactlyMappedRange ==
    Returned("from") =>
        /\ ~ret.panic <=> AcceptedAsStated(input)
        /\ ~ret.panic => ret = Ok(RangeAsStated(input))
        /\ ret.panic => DOMAIN ret = {"panic", "msg"}

C2_Witness ==
    /\ Returned("from")
    /\ Len(input) = 2
    /\ Cardinality(Lowers(input)) = 1
    /\ Cardinality(Uppers(input)) = 1
    /\ ret = Ok(RangeAsStated(input))
    /\ SameVersion(ret.value.start, ret.value.end)

\* C3: a list of 3 or more predicates always fails with the "too many
\* predicates" message, whatever it holds.
C3_TooManyPredicates ==
    (Returned("from") /\ Len(input) >= 3) => ret = Panic(TooManyPredicates)

C3_Witness ==
    /\ Returned("from")
    /\ Len(input) >= 3
    /\ Equals(input) # {}
    /\ Cardinality(Lowers(input)) >= 2
    /\ ret = Panic(TooManyPredicates)

\* C4: two predicates that both name the lower side always fail with the
\* duplicate-lower-bound message, two that both name the upper side with the
\* duplicate-upper-bound message, in either order and for any versions.
C4_DuplicateBound ==
    (Returned("from") /\ Len(input) = 2) =>
        /\ (IsLower(input[1]) /\ IsLower(input[2])) => ret = Panic(DuplicateLower)
        /\ (IsUpper(input[1]) /\ IsUpper(input[2])) => ret = Panic(DuplicateUpper)

C4_Witness ==
    /\ Returned("from")
    /\ Len(input) = 2
    /\ input[1].op = "GtEq"
    /\ input[2].op = "Gt"
    /\ input[1].version < input[2].version
    /\ ret = Panic(DuplicateLower)

BothValid == ValidAsStated(self) /\ ValidAsStated(other)

\* C5: overlap is symmetric: for valid a and b, overlaps(a, b) = overlaps(b, a).
C5_OverlapSymmetric ==
    (Returned("overlaps") /\ BothValid) =>
        /\ ~ret.panic
        /\ ret = overlaps(other, self)

C5_Witness ==
    /\ Returned("overlaps")
    /\ BothValid
    /\ self # other
    /\ Versioned(self.start) /\ Versioned(self.end)
    /\ Versioned(other.start) /\ Versioned(other.end)
    /\ ret = Ok(TRUE)

\* C6: for valid a and b with a.end and b.start at the same version: if one of
\* the two is Exclusive, overlaps(a, b) is false; if both are Inclusive and
\* a.start lies below b.end (one of them Unbounded, or a.start.version <
\* b.end.version), overlaps(a, b) is true.
C6_TouchingBounds ==
    (Returned("overlaps") /\ BothValid /\ SameVersion(self.end, other.start)) =>
        /\ (self.end.kind = "Exclusive" \/ other.start.kind = "Exclusive") => ret = Ok(FALSE)
        /\ (/\ self.end.kind = "Inclusive"
            /\ other.start.kind = "Inclusive"
            /\ \/ ~Versioned(self.start)
               \/ ~Versioned(other.end)
               \/ Below(self.start, other.end)) => ret = Ok(TRUE)

C6_Witness ==
    /\ Returned("overlaps")
    /\ BothValid
    /\ SameVersion(self.end, other.start)
    /\ self.end.kind = "Inclusive"
    /\ other.start.kind = "Inclusive"
    /\ Below(self.start, self.end)
    /\ Below(other.start, other.end)
    /\ ret = Ok(TRUE)

\* C7: an Unbounded side never prevents overlap: valid ranges that are both
\* Unbounded at the start, or both Unbounded at the end, overlap; and for
\* a = (Unbounded, e), b = (s, Unbounded) with versioned e and s, overlaps(a, b)
\* is true iff s.version < e.version, or the versions are equal and both s and
\* e are Inclusive.
C7_UnboundedSides ==
    (Returned("overlaps") /\ BothValid) =>
        /\ (~Versioned(self.start) /\ ~Versioned(other.start)) => ret = Ok(TRUE)
        /\ (~Versioned(self.end) /\ ~Versioned(other.end)) => ret = Ok(TRUE)
        /\ (/\ ~Versioned(self.start)
            /\ ~Versioned(other.end)
            /\ Versioned(self.end)
            /\ Versioned(other.start)) =>
               ret = Ok(\/ Below(other.start, self.end)
                        \/ /\ SameVersion(other.start, self.end)
                           /\ other.start.kind = "Inclusive"
                           /\ self.end.kind = "Inclusive")

C7_Witness ==
    /\ Returned("overlaps")
    /\ ~Versioned(self.start)
    /\ ~Versioned(other.end)
    /\ self.end.kind = "Exclusive"
    /\ other.start.kind = "Inclusive"
    /\ Below(other.start, self.end)
    /\ ret = Ok(TRUE)

\* v lies in r
Member(v, r) ==
    /\ \/ ~Versioned(r.start)
       \/ v > r.start.version
       \/ v = r.start.version /\ r.start.kind = "Inclusive"
    /\ \/ ~Versioned(r.end)
       \/ v < r.end.version
       \/ v = r.end.version /\ r.end.kind = "Inclusive"

\* C8: overlap has no false negatives: for valid a and b, a version that lies
\* in both a and b makes overlaps(a, b) true.
C8_NoFalseNegative ==
    (Returned("overlaps") /\ BothValid) =>
        \A v \in Version : (Member(v, self) /\ Member(v, other)) => ret = Ok(TRUE)

C8_Witness ==
    /\ Returned("overlaps")
    /\ BothValid
    /\ SameVersion(self.end, other.start)
    /\ Below(self.start, self.end)
    /\ Below(other.start, other.end)
    /\ \E v \in Version : Member(v, self) /\ Member(v, other)
    /\ ret = Ok(TRUE)

\* C9: the conversion does not depend on the order of two predicates: [p, q]
\* and [q, p] end with the same range or with a failure of the same kind.
C9_OrderIndependent ==
    (Returned("from") /\ Len(input) = 2) => ret = from(<<input[2], input[1]>>)

C9_Witness ==
    /\ Returned("from")
    /\ Len(input) = 2
    /\ input[1] # input[2]
    /\ IsUpper(input[1])
    /\ IsLower(input[2])
    /\ ~ret.panic

\* C10: for a valid r, overlaps(r, r) is true unless both bounds carry the same
\* version and at least one is Exclusive; for (Inclusive v, Exclusive v) and
\* (Exclusive v, Inclusive v) it is false.
C10_SelfOverlap ==
    (Returned("overlaps") /\ self = other /\ ValidAsStated(self)) =>
        /\ ret = Ok(~(/\ SameVersion(self.start, self.end)
                      /\ (self.start.kind = "Exclusive" \/ self.end.kind = "Exclusive")))
        /\ (/\ SameVersion(self.start, self.end)
            /\ <<self.start.kind, self.end.kind>> \in
                  {<<"Inclusive", "Exclusive">>, <<"Exclusive", "Inclusive">>}) => ret = Ok(FALSE)

C10_Witness ==
    /\ Returned("overlaps")
    /\ self = other
    /\ SameVersion(self.start, self.end)
    /\ self.start.kind = "Exclusive"
    /\ self.end.kind = "Inclusive"
    /\ ret = Ok(FALSE)

====
